---- MODULE Spec2Model ----
(***************************************************************************)
(* The NDJSON streaming pipeline of app/main.py:                           *)
(*   read_csv_chunks -> apply_query -> enrich_scale -> encode_with_progress *)
(* composed by pipeline_ndjson and served by stream_pipeline.              *)
(*                                                                         *)
(* Every stage is a Python generator.  A pull (next()) by the response     *)
(* writer resumes encode_with_progress, which either finishes the batch it *)
(* holds (its progress frame) or pulls one batch through the whole chain.  *)
(* One pull is one action of the model.                                    *)
(*                                                                         *)
(* Cells are the text of the CSV fields; the empty field is pandas' NaN.   *)
(***************************************************************************)
EXTENDS Integers, Sequences, FiniteSets, TLC

VARIABLES file, cfg, pc, status, pos, nread, filtered, cur, running_counts, out

vars == <<file, cfg, pc, status, pos, nread, filtered, cur, running_counts, out>>

(* ------------------------------ bounds -------------------------------- *)

\* longest file (data lines below the header)
MaxRows == 3

\* largest chunksize a request asks for
MaxChunk == 2

\* concurrent requests
Req == {1, 2}

(* ------------------------------ values -------------------------------- *)

\* Python None of an Optional parameter
NONE == "<None>"

\* an empty CSV field, read as NaN and written as JSON null
NULL == ""

\* `not s` for an Optional[str]: None and "" are both falsy
Absent(s) == s = NONE \/ s = ""

Range(s) == {s[k] : k \in 1..Len(s)}

Min(a, b) == IF a < b THEN a ELSE b

\* the header line of the CSV file
FileColumns == <<"category", "value">>

\* pd.to_numeric(errors="coerce") on one cell: -1 stands for NaN
ToNumeric(cell) ==
  CASE cell = "0" -> 0
    [] cell = "1" -> 1
    [] cell = "2" -> 2
    [] cell = "4" -> 4
    [] OTHER -> -1

\* the text of a number, NaN as the empty (null) cell
NumText(n) ==
  CASE n = 0 -> "0"
    [] n = 1 -> "1"
    [] n = 2 -> "2"
    [] n = 4 -> "4"
    [] OTHER -> NULL

\* well-formed data lines; ok = FALSE marks a line the parser rejects
GoodLines ==
  { [category |-> "a", value |-> "1", ok |-> TRUE],
    [category |-> "b", value |-> "2", ok |-> TRUE],
    [category |-> NULL, value |-> NULL, ok |-> TRUE] }

BadLines == { [category |-> "a", value |-> "1", ok |-> FALSE] }

Lines == GoodLines \cup BadLines

\* A first data line with surplus fields changes how the header is read
\* instead of failing, so a malformed line is at line 2 or later.
Files ==
  { f \in UNION { [1..n -> Lines] : n \in 0..MaxRows } :
      Len(f) > 0 => f[1].ok }

Queries == {NONE, "", "value > 1", "nosuch > 1"}

Configs ==
  [ chunksize    : 0..MaxChunk,
    cols         : {NONE, "category"},
    query        : Queries,
    scale_src    : {NONE, "value"},
    scale_factor : {NONE, "0", "2"},
    scale_out    : {NONE, "value_scaled"},
    groupby      : {NONE, "category", "value_scaled"} ]

(* --------------------------- read_csv_chunks --------------------------- *)

\* cols.split(",")
Split(cols) ==
  CASE cols = "category" -> <<"category">>
    [] cols = "value" -> <<"value">>
    [] OTHER -> <<"category", "value">>

\* usecols = cols.split(",") if cols else None; read_csv keeps the columns
\* named by usecols, in file order, and all of them under None
Columns(cols) ==
  IF Absent(cols) THEN FileColumns
  ELSE SelectSeq(FileColumns, LAMBDA c : c \in Range(Split(cols)))

\* pd.read_csv(chunksize=...) raises ValueError unless chunksize >= 1
ChunksizeInvalid(chunksize) == chunksize < 1

\* (variant) the chunk takes one line more than it was asked for
ChunkEndOneMore(f, p, chunksize) == Min(p + chunksize + 1, Len(f))

\* one past the last line of the chunk that starts after line p
ChunkEnd(f, p, chunksize) == Min(p + chunksize, Len(f))

\* (variant) the reader skips over what it cannot parse and goes on
ChunkMalformedIgnored(f, p, chunksize) == FALSE

\* the tokenizer meets a line it cannot parse inside the chunk
ChunkMalformed(f, p, chunksize) ==
  \E k \in (p + 1)..ChunkEnd(f, p, chunksize) : ~f[k].ok

\* The iterator is exhausted.  A file with a header and no data line still
\* yields one (empty) first chunk.
ReaderExhausted(f, p, n) == p >= Len(f) /\ n > 0

ParseLine(line, columns) == [c \in Range(columns) |-> line[c]]

\* dtype inference is per chunk: a column whose fields in this chunk are
\* all numbers or empty is float64, otherwise object; an empty chunk has
\* object columns
InferDtype(f, p, e, c) ==
  IF e > p /\ \A k \in (p + 1)..e : ToNumeric(f[k][c]) >= 0 \/ f[k][c] = NULL
  THEN "float64" ELSE "object"

\* (variant) a chunk of several lines loses its last line
ReadChunkShort(f, p, chunksize, cols) ==
  LET e == ChunkEnd(f, p, chunksize)
      n == IF e - p > 1 THEN e - p - 1 ELSE e - p
  IN [ columns |-> Columns(cols),
       dtype   |-> [c \in Range(Columns(cols)) |-> InferDtype(f, p, e, c)],
       rows    |-> [k \in 1..n |-> ParseLine(f[p + k], Columns(cols))] ]

ReadChunk(f, p, chunksize, cols) ==
  LET e == ChunkEnd(f, p, chunksize)
  IN [ columns |-> Columns(cols),
       dtype   |-> [c \in Range(Columns(cols)) |-> InferDtype(f, p, e, c)],
       rows    |-> [k \in 1..(e - p) |-> ParseLine(f[p + k], Columns(cols))] ]

(* ------------------------------ apply_query ---------------------------- *)

\* the column a predicate expression refers to
QueryColumn(query) ==
  CASE query = "value > 1" -> "value"
    [] query = "nosuch > 1" -> "nosuch"
    [] OTHER -> NONE

\* the predicate on one record; NaN > 1 is false
QueryHolds(row, query) == ToNumeric(row[QueryColumn(query)]) > 1

\* df.query raises on a name that is no column of the batch
QueryRaises(df, query) ==
  ~Absent(query) /\ QueryColumn(query) \notin Range(df.columns)

\* (variant) the predicate is not applied
ApplyQueryKeepsAll(df, query) == df

ApplyQuery(df, query) ==
  IF Absent(query) THEN df
  ELSE [df EXCEPT !.rows = SelectSeq(df.rows, LAMBDA r : QueryHolds(r, query))]

(* ------------------------------ enrich_scale --------------------------- *)

\* pd.to_numeric(cell, errors="coerce") * scale_factor
Scale(cell, scale_factor) ==
  IF ToNumeric(cell) < 0 THEN NULL
  ELSE NumText(ToNumeric(cell) * ToNumeric(scale_factor))

\* (variant) `not scale_factor` in place of `scale_factor is None`: the
\* factor 0 counts as not supplied
EnrichScaleFalsyFactor(df, source_col, scale_factor, out_col) ==
  IF Absent(source_col) \/ scale_factor \in {NONE, "0"} \/ Absent(out_col) THEN df
  ELSE IF source_col \in Range(df.columns)
  THEN [ columns |-> IF out_col \in Range(df.columns) THEN df.columns
                     ELSE Append(df.columns, out_col),
         dtype   |-> [c \in Range(df.columns) \cup {out_col} |->
                        IF c = out_col THEN "float64" ELSE df.dtype[c]],
         rows    |-> [k \in 1..Len(df.rows) |->
                        [c \in Range(df.columns) \cup {out_col} |->
                           IF c = out_col
                           THEN Scale(df.rows[k][source_col], scale_factor)
                           ELSE df.rows[k][c]]] ]
  ELSE df

EnrichScale(df, source_col, scale_factor, out_col) ==
  IF Absent(source_col) \/ scale_factor = NONE \/ Absent(out_col) THEN df
  ELSE IF source_col \in Range(df.columns)
  THEN [ columns |-> IF out_col \in Range(df.columns) THEN df.columns
                     ELSE Append(df.columns, out_col),
         dtype   |-> [c \in Range(df.columns) \cup {out_col} |->
                        IF c = out_col THEN "float64" ELSE df.dtype[c]],
         rows    |-> [k \in 1..Len(df.rows) |->
                        [c \in Range(df.columns) \cup {out_col} |->
                           IF c = out_col
                           THEN Scale(df.rows[k][source_col], scale_factor)
                           ELSE df.rows[k][c]]] ]
  ELSE df

(* -------------------------- encode_with_progress ----------------------- *)

EmptyDict == [k \in {} |-> 0]

EmptyDf == [columns |-> <<>>, dtype |-> EmptyDict, rows |-> <<>>]

\* (variant) one module-level dict serves every call
NewDictShared(i) == 1

\* running_counts: dict = {} makes a dict of its own in every call
NewDict(i) == i

\* df.to_json(orient="records"): the list of record objects, in row order
ToJsonRecords(df) == [k \in 1..Len(df.rows) |-> df.rows[k]]

DataFrame(df) ==
  [type |-> "data", rows |-> ToJsonRecords(df), running_counts |-> EmptyDict]

\* (variant) no progress frame for a batch without rows
EmitsProgressNonEmpty(df, groupby) ==
  ~Absent(groupby) /\ groupby \in Range(df.columns) /\ Len(df.rows) > 0

\* `if groupby and groupby in df.columns`
EmitsProgress(df, groupby) == ~Absent(groupby) /\ groupby \in Range(df.columns)

\* The dict key that value_counts(dropna=False).to_dict() gives for a cell:
\* <<cell, object>>.  Strings and numbers are equal as dict keys when their
\* values are equal (object 0).  NaN is equal to nothing, itself included, so
\* a dict finds a NaN key only by identity: an object column holds the one
\* np.nan object (object 0), a float64 column is boxed into a new float for
\* every batch (object n, the number of the batch).
KeyOf(df, groupby, cell, n) ==
  IF cell = NULL /\ df.dtype[groupby] = "float64" THEN <<NULL, n>>
  ELSE <<cell, 0>>

ValueCounts(df, groupby, n) ==
  LET key(k) == KeyOf(df, groupby, df.rows[k][groupby], n)
  IN [ x \in {key(k) : k \in 1..Len(df.rows)} |->
         Cardinality({k \in 1..Len(df.rows) : key(k) = x}) ]

DictGet(d, k, default) == IF k \in DOMAIN d THEN d[k] ELSE default

\* for k, v in vc.items(): running_counts[k] = running_counts.get(k, 0) + int(v)
UpdateCounts(rc, vc) ==
  [k \in DOMAIN rc \cup DOMAIN vc |->
     IF k \in DOMAIN vc THEN DictGet(rc, k, 0) + vc[k] ELSE rc[k]]

\* pd.Series(rc).to_json() raises ValueError on an index that is not unique,
\* and the index compares NaN equal to NaN
IndexUnique(rc) == \A j, k \in DOMAIN rc : j[1] = k[1] => j = k

\* the JSON object: one member per index label
SeriesToJson(rc) ==
  [s \in {k[1] : k \in DOMAIN rc} |-> rc[CHOOSE k \in DOMAIN rc : k[1] = s]]

ProgressFrame(rc) ==
  [type |-> "progress", rows |-> <<>>, running_counts |-> SeriesToJson(rc)]

(* ------------------------ the generator of a request ------------------- *)

RC(i) == running_counts[NewDict(i)]

\* the resumed encoder finishes the batch it holds: its progress frame
ResumesInBatch(i) ==
  pc[i] = "data" /\ EmitsProgress(cur[i], cfg[i].groupby)

\* (variant) the encoder fetches the next batch ahead of the progress frame
NeedsBatchEager(i) == pc[i] \in {"created", "data", "progress"}

\* the resumed encoder asks upstream for the next batch
NeedsBatch(i) ==
  \/ pc[i] \in {"created", "progress"}
  \/ pc[i] = "data" /\ ~EmitsProgress(cur[i], cfg[i].groupby)

\* the dicts after line 35 ran, which it does on the first pull
Started(i) ==
  IF pc[i] = "created"
  THEN [running_counts EXCEPT ![NewDict(i)] = EmptyDict]
  ELSE running_counts

(* -------------------------------- Init --------------------------------- *)

IdleConfig ==
  [chunksize |-> 1, cols |-> NONE, query |-> NONE, scale_src |-> NONE, scale_factor |-> NONE,
   scale_out |-> NONE, groupby |-> NONE]

InitWith(f, c, p) ==
  /\ file = f
  /\ cfg = c
  /\ pc = p
  /\ status = [i \in Req |-> 0]
  /\ pos = [i \in Req |-> 0]
  /\ nread = [i \in Req |-> 0]
  /\ filtered = [i \in Req |-> EmptyDf]
  /\ cur = [i \in Req |-> EmptyDf]
  /\ running_counts = [i \in Req |-> EmptyDict]
  /\ out = [i \in Req |-> <<>>]

\* one request
Init ==
  \E f \in Files, c \in Configs :
    InitWith([i \in Req |-> IF i = 1 THEN f ELSE <<>>],
             [i \in Req |-> IF i = 1 THEN c ELSE IdleConfig],
             [i \in Req |-> IF i = 1 THEN "request" ELSE "none"])

(* ------------------------------- actions ------------------------------- *)

\* GET /stream/pipeline: the generator is made, nothing of it runs, and the
\* StreamingResponse (200) is returned whatever the parameters are
StreamPipeline(i) ==
  /\ pc[i] = "request"
  /\ pc' = [pc EXCEPT ![i] = "created"]
  /\ status' = [status EXCEPT ![i] = 200]
  /\ UNCHANGED <<file, cfg, pos, nread, filtered, cur, running_counts, out>>

\* a pull that takes one batch through reader, filter, enricher and encoder
\* and hands its data frame to the response writer
NextData(i) ==
  /\ NeedsBatch(i)
  /\ ~ChunksizeInvalid(cfg[i].chunksize)
  /\ ~ReaderExhausted(file[i], pos[i], nread[i])
  /\ ~ChunkMalformed(file[i], pos[i], cfg[i].chunksize)
  /\ LET chunk == ReadChunk(file[i], pos[i], cfg[i].chunksize, cfg[i].cols)
         q     == ApplyQuery(chunk, cfg[i].query)
         df    == EnrichScale(q, cfg[i].scale_src, cfg[i].scale_factor,
                              cfg[i].scale_out)
     IN /\ ~QueryRaises(chunk, cfg[i].query)
        /\ pos' = [pos EXCEPT ![i] = ChunkEnd(file[i], pos[i], cfg[i].chunksize)]
        /\ nread' = [nread EXCEPT ![i] = @ + 1]
        /\ filtered' = [filtered EXCEPT ![i] = q]
        /\ cur' = [cur EXCEPT ![i] = df]
        /\ out' = [out EXCEPT ![i] = Append(@, DataFrame(df))]
  /\ running_counts' = Started(i)
  /\ pc' = [pc EXCEPT ![i] = "data"]
  /\ UNCHANGED <<file, cfg, status>>

\* a pull that updates the running counts with the batch held and hands
\* its progress frame to the response writer
NextProgress(i) ==
  /\ ResumesInBatch(i)
  /\ LET rc == UpdateCounts(RC(i), ValueCounts(cur[i], cfg[i].groupby, nread[i]))
     IN /\ IndexUnique(rc)
        /\ running_counts' = [running_counts EXCEPT ![NewDict(i)] = rc]
        /\ out' = [out EXCEPT ![i] = Append(@, ProgressFrame(rc))]
  /\ pc' = [pc EXCEPT ![i] = "progress"]
  /\ UNCHANGED <<file, cfg, status, pos, nread, filtered, cur>>

\* a pull that finds the reader exhausted: every generator returns
NextStop(i) ==
  /\ NeedsBatch(i)
  /\ ~ChunksizeInvalid(cfg[i].chunksize)
  /\ ReaderExhausted(file[i], pos[i], nread[i])
  /\ running_counts' = Started(i)
  /\ pc' = [pc EXCEPT ![i] = "done"]
  /\ UNCHANGED <<file, cfg, status, pos, nread, filtered, cur, out>>

\* a pull in which the reader raises: nothing is caught on the way up
ReaderRaise(i) ==
  /\ NeedsBatch(i)
  /\ \/ ChunksizeInvalid(cfg[i].chunksize)
     \/ /\ ~ChunksizeInvalid(cfg[i].chunksize)
        /\ ~ReaderExhausted(file[i], pos[i], nread[i])
        /\ ChunkMalformed(file[i], pos[i], cfg[i].chunksize)
  /\ running_counts' = Started(i)
  /\ pc' = [pc EXCEPT ![i] = "failed"]
  /\ UNCHANGED <<file, cfg, status, pos, nread, filtered, cur, out>>

\* a pull in which the reader yields a batch and df.query raises on it
QueryRaise(i) ==
  /\ NeedsBatch(i)
  /\ ~ChunksizeInvalid(cfg[i].chunksize)
  /\ ~ReaderExhausted(file[i], pos[i], nread[i])
  /\ ~ChunkMalformed(file[i], pos[i], cfg[i].chunksize)
  /\ QueryRaises(ReadChunk(file[i], pos[i], cfg[i].chunksize, cfg[i].cols), cfg[i].query)
  /\ pos' = [pos EXCEPT ![i] = ChunkEnd(file[i], pos[i], cfg[i].chunksize)]
  /\ nread' = [nread EXCEPT ![i] = @ + 1]
  /\ running_counts' = Started(i)
  /\ pc' = [pc EXCEPT ![i] = "failed"]
  /\ UNCHANGED <<file, cfg, status, filtered, cur, out>>

\* a pull in which the counts are updated and to_json raises on them
ProgressRaise(i) ==
  /\ ResumesInBatch(i)
  /\ LET rc == UpdateCounts(RC(i), ValueCounts(cur[i], cfg[i].groupby, nread[i]))
     IN /\ ~IndexUnique(rc)
        /\ running_counts' = [running_counts EXCEPT ![NewDict(i)] = rc]
  /\ pc' = [pc EXCEPT ![i] = "failed"]
  /\ UNCHANGED <<file, cfg, status, pos, nread, filtered, cur, out>>

Next ==
  \E i \in Req :
    \/ StreamPipeline(i)
    \/ NextData(i)
    \/ NextProgress(i)
    \/ NextStop(i)
    \/ ReaderRaise(i)
    \/ QueryRaise(i)
    \/ ProgressRaise(i)

Spec == Init /\ [][Next]_vars

\* two requests in flight at once, each with a file and parameters of its own
ConcFiles == {f \in Files : Len(f) = 2}

ConcConfigs ==
  {c \in Configs :
     /\ c.chunksize = 1 /\ c.cols = NONE
     /\ c.scale_src = NONE /\ c.scale_factor = NONE /\ c.scale_out = NONE
     /\ c.groupby \in {NONE, "category"}}

Init2 ==
  \E f1 \in ConcFiles, f2 \in ConcFiles, c1 \in ConcConfigs, c2 \in ConcConfigs :
    InitWith([i \in Req |-> IF i = 1 THEN f1 ELSE f2],
             [i \in Req |-> IF i = 1 THEN c1 ELSE c2],
             [i \in Req |-> "request"])

Spec2 == Init2 /\ [][Next]_vars

(***************************************************************************)
(* What a response should hold, stated on the file as a whole and on its   *)
(* lines, without the stages above.                                        *)
(***************************************************************************)

IsPrefix(s, t) == Len(s) <= Len(t) /\ s = SubSeq(t, 1, Len(s))

Last(s) == s[Len(s)]

CeilDiv(n, d) == (n + d - 1) \div d

\* the columns the reader keeps
KeptColumns(c) ==
  IF c.cols = "category" THEN {"category"} ELSE {"category", "value"}

\* the line satisfies the filter of the request
Passes(line, c) ==
  \/ c.query \in {NONE, ""}
  \/ c.query = "value > 1" /\ line.value \in {"2", "4"}

\* the request names a predicate that cannot be evaluated
PredicateInvalid(c) ==
  \/ c.query = "nosuch > 1"
  \/ c.query = "value > 1" /\ "value" \notin KeptColumns(c)

\* the triple is supplied and its source column is read
EnrichOn(c) ==
  /\ c.scale_src \notin {NONE, ""}
  /\ c.scale_factor # NONE
  /\ c.scale_out \notin {NONE, ""}
  /\ c.scale_src \in KeptColumns(c)

RecordColumns(c) == KeptColumns(c) \cup (IF EnrichOn(c) THEN {c.scale_out} ELSE {})

\* source value times factor, null for a value that is no number
Product(cell, factor) ==
  IF cell \in {"0", "1", "2", "4"}
  THEN NumText(ToNumeric(cell) * ToNumeric(factor)) ELSE NULL

\* the record the response shows for a line
Record(line, c) ==
  [col \in RecordColumns(c) |->
     IF EnrichOn(c) /\ col = c.scale_out
     THEN Product(line[c.scale_src], c.scale_factor) ELSE line[col]]

Records(ls, c) == [k \in 1..Len(ls) |-> Record(ls[k], c)]

\* the filtered and enriched records of a sequence of lines, in line order
ExpectedRows(ls, c) == Records(SelectSeq(ls, LAMBDA l : Passes(l, c)), c)

\* the lines of the k-th batch of a file read c.chunksize lines at a time
BatchLines(f, c, k) ==
  SubSeq(f, (k - 1) * c.chunksize + 1, Min(k * c.chunksize, Len(f)))

\* the batches of a file: a file without data lines still has one
NumBatches(f, c) == IF Len(f) = 0 THEN 1 ELSE CeilDiv(Len(f), c.chunksize)

\* the batches before the first one that holds a malformed line
GoodBatches(f, c) ==
  IF c.chunksize < 1 \/ PredicateInvalid(c) THEN 0
  ELSE IF \A k \in 1..Len(f) : f[k].ok THEN NumBatches(f, c)
  ELSE CeilDiv(CHOOSE k \in 1..Len(f) :
                 ~f[k].ok /\ \A j \in 1..(k - 1) : f[j].ok, c.chunksize) - 1

\* a progress frame is due for every batch of the request
ProgressDue(c) == c.groupby \notin {NONE, ""} /\ c.groupby \in RecordColumns(c)

\* per key, the number of the rows that have it
KeyCounts(rows, g) ==
  [s \in {rows[k][g] : k \in 1..Len(rows)} |->
     Cardinality({k \in 1..Len(rows) : rows[k][g] = s})]

RECURSIVE DataRows(_)
\* the rows of the data frames of an output, concatenated in emission order
DataRows(o) ==
  IF Len(o) = 0 THEN <<>>
  ELSE (IF Head(o).type = "data" THEN Head(o).rows ELSE <<>>) \o DataRows(Tail(o))

DataIndexes(o) == {n \in 1..Len(o) : o[n].type = "data"}

ProgressIndexes(o) == {n \in 1..Len(o) : o[n].type = "progress"}

DataCount(o) == Cardinality(DataIndexes(o))

\* the position in o of its k-th data frame
NthData(o, k) ==
  CHOOSE n \in DataIndexes(o) : Cardinality({m \in DataIndexes(o) : m <= n}) = k

Live == {i \in Req : pc[i] # "none"}

(* ------------------------------- C1 ---------------------------------- *)

\* C1: the rows of the data frames emitted so far, concatenated in emission
\* order, are always an initial part of the file's records that satisfy the
\* filter (each enriched), in file order; when the stream has been consumed
\* to its end they are exactly that sequence.
C1_DataIsFilteredFile ==
  \A i \in Live :
    /\ IsPrefix(DataRows(out[i]), ExpectedRows(file[i], cfg[i]))
    /\ pc[i] = "done" => DataRows(out[i]) = ExpectedRows(file[i], cfg[i])

\* a finished stream of several data frames, with a record dropped by the
\* filter, records kept, and the enrichment applied
C1_Witness ==
  \E i \in Live :
    /\ pc[i] = "done"
    /\ DataCount(out[i]) >= 2
    /\ ~Absent(cfg[i].query)
    /\ EnrichOn(cfg[i])
    /\ Len(DataRows(out[i])) >= 2
    /\ Len(DataRows(out[i])) < Len(file[i])

(* ------------------------------- C3 ---------------------------------- *)

C5_FramesEqualSurvivors ==
  \A i \in Live :
    pc[i] = "done" /\ cfg[i].chunksize = 1 /\ Len(file[i]) > 0 =>
      DataCount(out[i]) = Len(ExpectedRows(file[i], cfg[i]))

\* C5: with chunksize 1 every data frame holds at most one record; a
\* finished stream has a data frame for every record of the file, the k-th
\* one holding the k-th record if it passes the filter and nothing if it does
\* not; so the data frames that hold a record are as many as the records
\* that pass the filter.
C5_NonEmptyFramesEqualSurvivors ==
  \A i \in Live :
    cfg[i].chunksize = 1 =>
      /\ \A n \in DataIndexes(out[i]) : Len(out[i][n].rows) <= 1
      /\ pc[i] = "done" =>
           /\ DataCount(out[i]) >= Len(file[i])
           /\ \A k \in 1..Len(file[i]) :
                out[i][NthData(out[i], k)].rows =
                  ExpectedRows(<<file[i][k]>>, cfg[i])
           /\ Cardinality({n \in DataIndexes(out[i]) : out[i][n].rows # <<>>})
                = Len(ExpectedRows(file[i], cfg[i]))

\* a finished stream read one line at a time in which the filter dropped a
\* record and kept another
C5_Witness ==
  \E i \in Live :
    /\ pc[i] = "done"
    /\ cfg[i].chunksize = 1
    /\ \E m, n \in DataIndexes(out[i]) :
         out[i][m].rows = <<>> /\ out[i][n].rows # <<>>

(* ------------------------------- C2 ---------------------------------- *)

\* the request has a readable file, a predicate that evaluates and a chunk
\* size the reader accepts
Sound(i) ==
  /\ \A k \in 1..Len(file[i]) : file[i][k].ok
  /\ cfg[i].chunksize >= 1
  /\ ~PredicateInvalid(cfg[i])

\* C2 as stated: every progress frame carries, per key, the number of
\* records with that key in the data frames emitted before it; the running
\* aggregate has one count per key; and when the stream of a sound request
\* with a group-by column has ended, its last frame is a progress frame whose
\* counts are the per-key totals over all records that passed the filter.
C2_CountsExact ==
  \A i \in Live :
    ProgressDue(cfg[i]) =>
      /\ \A n \in ProgressIndexes(out[i]) :
           out[i][n].running_counts =
             KeyCounts(DataRows(SubSeq(out[i], 1, n)), cfg[i].groupby)
      /\ \A j, k \in DOMAIN RC(i) : j[1] = k[1] => j = k
      /\ pc[i] \in {"done", "failed"} /\ Sound(i) =>
           /\ Len(out[i]) > 0
           /\ Last(out[i]).type = "progress"
           /\ Last(out[i]).running_counts =
                KeyCounts(ExpectedRows(file[i], cfg[i]), cfg[i].groupby)

(* ------------------------------- C6 ---------------------------------- *)

Supplied(c) ==
  {n \in {"scale_src", "scale_factor", "scale_out"} : c[n] # NONE}

\* an enrichment parameter without its companions, or a chunk size below 1
InvalidConfiguration(c) ==
  \/ c.chunksize < 1
  \/ Supplied(c) # {} /\ Supplied(c) # {"scale_src", "scale_factor", "scale_out"}

\* C6 as stated, for a file that holds a record: no frame is ever emitted
\* for a request whose configuration is invalid.
C6_InvalidConfigurationEmitsNothing ==
  \A i \in Live :
    InvalidConfiguration(cfg[i]) /\ Len(file[i]) > 0 => out[i] = <<>>

(* ------------------------------- C7 ---------------------------------- *)

\* every frame of the batches read so far is with the consumer
HandedOver(i) ==
  /\ DataCount(out[i]) = nread[i]
  /\ nread[i] > 0 /\ ProgressDue(cfg[i]) => Last(out[i]).type = "progress"

\* C7: the reader is advanced one batch at a time, and only by a pull made
\* when every frame of the batches read before (data frame and, where one is
\* due, progress frame) is with the consumer; the reader is never more than
\* one batch ahead of the data frames handed over, and never past the lines
\* of the batches it has produced.
C7_PullDriven ==
  /\ [](\A i \in Live :
          /\ nread[i] <= DataCount(out[i]) + 1
          /\ pos[i] <= nread[i] * cfg[i].chunksize)
  /\ [][\A i \in Live :
          nread'[i] # nread[i] \/ pos'[i] # pos[i] =>
            /\ nread'[i] = nread[i] + 1
            /\ pos'[i] <= pos[i] + cfg[i].chunksize
            /\ HandedOver(i)]_vars

\* the reader has produced a second batch, whose progress frame is pending,
\* after both frames of the first were handed over
C7_Witness ==
  \E i \in Live :
    /\ pc[i] = "data"
    /\ nread[i] = 2
    /\ ProgressDue(cfg[i])
    /\ Len(out[i]) = 3

(* ------------------------------- C8 ---------------------------------- *)

RECURSIVE SoloFrom(_, _, _)
\* the frames of batches k, k+1, ... of a request that runs alone
SoloFrom(f, c, k) ==
  IF k > GoodBatches(f, c) THEN <<>>
  ELSE <<[type |-> "data",
          rows |-> ExpectedRows(BatchLines(f, c, k), c),
          running_counts |-> EmptyDict]>>
       \o (IF ProgressDue(c)
           THEN <<[type |-> "progress",
                   rows |-> <<>>,
                   running_counts |->
                     KeyCounts(ExpectedRows(SubSeq(f, 1, Min(k * c.chunksize, Len(f))), c),
                               c.groupby)]>>
           ELSE <<>>)
       \o SoloFrom(f, c, k + 1)

SoloFrames(f, c) == SoloFrom(f, c, 1)

\* C8: with two requests pulled in any interleaving, the frames of each are
\* at every moment an initial part of the frames it gives when it runs
\* alone, and all of them when its stream has finished; a step that is not a
\* request's own leaves its reader position, its batch count and its running
\* counts as they were.
C8_RequestsIsolated ==
  /\ [](\A i \in Live :
          /\ IsPrefix(out[i], SoloFrames(file[i], cfg[i]))
          /\ pc[i] = "done" => out[i] = SoloFrames(file[i], cfg[i]))
  /\ [][\A i \in Live :
          pc'[i] = pc[i] /\ out'[i] = out[i] =>
            /\ pos'[i] = pos[i]
            /\ nread'[i] = nread[i]
            /\ RC(i)' = RC(i)]_vars

\* both requests are in mid-stream at once, each past a progress frame that
\* counts a record, with different counts
C8_Witness ==
  /\ pc[1] = "data" /\ pc[2] = "data"
  /\ Len(out[1]) = 3 /\ Len(out[2]) = 3
  /\ out[1][2].type = "progress" /\ out[2][2].type = "progress"
  /\ out[1][2].running_counts # out[2][2].running_counts
  /\ out[1][2].running_counts # EmptyDict

(* ------------------------------- C9 ---------------------------------- *)

\* C9: a request whose stream has failed stays failed: no frame is added,
\* the reader is not advanced, nothing is retried; the pull that fails adds
\* no frame and the frames emitted before stay as they are; and no data frame
\* is ever emitted for the batch that holds an unparseable row, for a later
\* batch, or under a predicate that cannot be evaluated.
C9_FailureAborts ==
  /\ [](\A i \in Live : DataCount(out[i]) <= GoodBatches(file[i], cfg[i]))
  /\ [][\A i \in Live :
          /\ IsPrefix(out[i], out'[i])
          /\ pc'[i] = "failed" => out'[i] = out[i]
          /\ pc[i] = "failed" =>
               /\ pc'[i] = "failed"
               /\ pos'[i] = pos[i]
               /\ nread'[i] = nread[i]]_vars

\* a stream that failed on an unparseable row of a later batch, after the
\* frames of an earlier batch were emitted
C9_Witness ==
  \E i \in Live :
    /\ pc[i] = "failed"
    /\ Len(out[i]) >= 2
    /\ \E k \in 1..Len(file[i]) : ~file[i][k].ok

(* ------------------------------- C10 --------------------------------- *)

\* C10: the batch enrich_scale yields is a function of the batch it was
\* given and of the three parameters alone.  Unless source column, factor
\* and output column are all supplied and the source column is in the batch,
\* it is the batch it was given; otherwise it has the same records in the
\* same order, every record has the output column with the source value times
\* the factor (null where the source value is no number), the output column
\* is appended to the columns, and every other column of every record is
\* unchanged.
C10_EnrichFrame ==
  \A i \in Live :
    LET q == filtered[i]
        d == cur[i]
        c == cfg[i]
    IN IF /\ c.scale_src \notin {NONE, ""}
          /\ c.scale_factor # NONE
          /\ c.scale_out \notin {NONE, ""}
          /\ c.scale_src \in Range(q.columns)
       THEN /\ d.columns = Append(q.columns, c.scale_out)
            /\ Len(d.rows) = Len(q.rows)
            /\ \A k \in 1..Len(q.rows) :
                 /\ DOMAIN d.rows[k] = DOMAIN q.rows[k] \cup {c.scale_out}
                 /\ d.rows[k][c.scale_out] =
                      Product(q.rows[k][c.scale_src], c.scale_factor)
                 /\ \A col \in DOMAIN q.rows[k] : d.rows[k][col] = q.rows[k][col]
       ELSE d = q

\* a batch enriched with the factor 0: a record with a number and a record
\* with a null source value
C10_Witness ==
  \E i \in Live :
    /\ cfg[i].scale_factor = "0"
    /\ "value_scaled" \in Range(cur[i].columns)
    /\ \E j, k \in 1..Len(cur[i].rows) :
         /\ cur[i].rows[j].value_scaled = "0"
         /\ cur[i].rows[k].value_scaled = NULL
         /\ filtered[i].rows[k].value = NULL

\* a batch passed through unchanged because one of the three is missing
C10_WitnessUnchanged ==
  \E i \in Live :
    /\ cfg[i].scale_src = "value" /\ cfg[i].scale_out = "value_scaled"
    /\ cfg[i].scale_factor = NONE
    /\ Len(cur[i].rows) = 2

====
